---- MODULE Spec2Model ----
(***************************************************************************)
(* Model of the SafeGuard moderation pipeline:                             *)
(*   - ml-service/predictor_multilingual.py  MultilingualTextPredictor     *)
(*   - ml-service/predictor.py               TextPredictor (English only)  *)
(*   - ml-service/main.py                    POST /analyze                 *)
(*   - discord-bot/bot.py                    on_message and its helpers    *)
(*                                                                         *)
(* Probabilities and scores are Python floats in the source.  They are     *)
(* modelled as exact decimals: the integer k stands for k / 1 000 000, so  *)
(* 0.5 is 500000 and 1.0 is One.  All inputs are multiples of 1/1000, so   *)
(* every product with a one-decimal weight is exact.                       *)
(***************************************************************************)
EXTENDS Integers, Sequences, FiniteSets, TLC

(***************************************************************************)
(* Bounds of the model (not program constants).                            *)
(***************************************************************************)
\* longest text, in words of Vocabulary
MaxWords == 2
\* number of messages the bot receives in one behaviour
MaxMessages == 2
\* number of on_message tasks the event loop can hold at once
MaxInFlight == 2

(***************************************************************************)
(* Decimal arithmetic.                                                     *)
(***************************************************************************)
One == 1000 * 1000

\* k thousandths: Milli(785) is 0.785
Milli(k) == k * 1000

\* w is a weight in tenths: Tenths(7, x) is 0.7 * x
Tenths(w, x) == (w * x) \div 10

Max2(a, b) == IF a >= b THEN a ELSE b

Min2(a, b) == IF a <= b THEN a ELSE b

Abs(a) == IF a >= 0 THEN a ELSE 0 - a

\* Python max() over a non-empty collection of numbers
MaxOf(S) == CHOOSE m \in S : \A y \in S : m >= y

\* Python round(x, 3): nearest thousandth, ties to even
Round3(x) ==
  LET q == x \div 1000
      r == x % 1000
  IN  IF r > 500 \/ (r = 500 /\ q % 2 = 1) THEN (q + 1) * 1000 ELSE q * 1000

(***************************************************************************)
(* Strings.  A Python str is modelled as the sequence of its characters.   *)
(* An ASCII character is the TLA+ string of length one; a character of the *)
(* Kannada or Devanagari block is written by its code point, "U+0CA8".     *)
(***************************************************************************)
\* the str whose characters are those of the ASCII string s
Str(s) == [i \in 1..Len(s) |-> SubSeq(s, i, i)]

UpperLetters ==
  {"A","B","C","D","E","F","G","H","I","J","K","L","M",
   "N","O","P","Q","R","S","T","U","V","W","X","Y","Z"}

LowerLetters ==
  {"a","b","c","d","e","f","g","h","i","j","k","l","m",
   "n","o","p","q","r","s","t","u","v","w","x","y","z"}

\* str.lower() on one character; characters without case are unchanged
LowerChar(c) ==
  CASE c = "A" -> "a" [] c = "B" -> "b" [] c = "C" -> "c" [] c = "D" -> "d"
    [] c = "E" -> "e" [] c = "F" -> "f" [] c = "G" -> "g" [] c = "H" -> "h"
    [] c = "I" -> "i" [] c = "J" -> "j" [] c = "K" -> "k" [] c = "L" -> "l"
    [] c = "M" -> "m" [] c = "N" -> "n" [] c = "O" -> "o" [] c = "P" -> "p"
    [] c = "Q" -> "q" [] c = "R" -> "r" [] c = "S" -> "s" [] c = "T" -> "t"
    [] c = "U" -> "u" [] c = "V" -> "v" [] c = "W" -> "w" [] c = "X" -> "x"
    [] c = "Y" -> "y" [] c = "Z" -> "z" [] OTHER -> c

\* str.lower()
Lower(t) == [i \in 1..Len(t) |-> LowerChar(t[i])]

\* Python `kw in t` on strings: substring containment
Contains(kw, t) ==
  \E i \in 1..(Len(t) - Len(kw) + 1) : SubSeq(t, i, i + Len(kw) - 1) = kw

Whitespace == {" "}

\* len(t.strip()) == 0
IsBlank(t) == \A i \in 1..Len(t) : t[i] \in Whitespace

\* the characters of the Kannada block U+0C80..U+0CFF that occur in the model
KannadaBlock == {"U+0CA8", "U+0CBE", "U+0CAF", "U+0CBF"}

\* the characters of the Devanagari block U+0900..U+097F that occur in the model
DevanagariBlock == {"U+092E", "U+093E", "U+0930"}

\* re.search(r'[a-zA-Z]', t)
HasEnglish(t) == \E i \in 1..Len(t) : t[i] \in (UpperLetters \cup LowerLetters)

\* re.search(r'[\u0C80-\u0CFF]', t)
HasKannada(t) == \E i \in 1..Len(t) : t[i] \in KannadaBlock

\* re.search(r'[\u0900-\u097F]', t)
HasHindi(t) == \E i \in 1..Len(t) : t[i] \in DevanagariBlock

(***************************************************************************)
(* The lexicons (MultilingualTextPredictor.__init__).  The model keeps an  *)
(* excerpt of each list, in the order of the source: terms in both         *)
(* scripts, a term that is a substring of another, and the entry that the  *)
(* Hindi list holds twice.                                                 *)
(***************************************************************************)
threat_keywords_en == << Str("kill"), Str("die") >>

threat_keywords_kn ==
  << Str("nayi"), <<"U+0CA8", "U+0CBE", "U+0CAF", "U+0CBF">> >>

threat_keywords_hi ==
  << Str("maar"), Str("maarunga"), Str("maarunga"), Str("mar"), Str("tu"),
     <<"U+092E", "U+093E", "U+0930">>, <<"U+092E", "U+0930">> >>

threat_keywords == threat_keywords_en \o threat_keywords_kn \o threat_keywords_hi

\* TextPredictor.threat_keywords: the English list only
TextPredictor_threat_keywords == threat_keywords_en

(***************************************************************************)
(* Input texts: up to MaxWords words of Vocabulary separated by one space, *)
(* the whitespace-only text, one text with terms of all three lexicons,    *)
(* and one text in a script the predictor does not know (Cyrillic).        *)
(***************************************************************************)
Vocabulary ==
  { Str("hello"), Str("Kill"), Str("nayi"), Str("maarunga"), Str("42"),
    <<"U+0CA8", "U+0CBE", "U+0CAF", "U+0CBF">>,
    <<"U+092E", "U+093E", "U+0930">> }

RECURSIVE Join(_)
Join(ws) ==
  IF Len(ws) = 0 THEN << >>
  ELSE IF Len(ws) = 1 THEN ws[1]
  ELSE ws[1] \o <<" ">> \o Join(Tail(ws))

Texts ==
  { Join(ws) : ws \in UNION { [1..n -> Vocabulary] : n \in 0..MaxWords } }
    \cup { <<" ">>, Str("Kill nayi maarunga"), <<"U+0442", "U+044B">> }

(***************************************************************************)
(* Keyword Signal Engine.                                                  *)
(***************************************************************************)
\* sum(1 for keyword in keywords if keyword.lower() in text_lower)
CountMatches(keywords, text) ==
  Cardinality({ i \in 1..Len(keywords) : Contains(Lower(keywords[i]), Lower(text)) })

\* CountMatches(threat_keywords, text), tabulated over the input texts
ThreatKeywordMatches == [t \in Texts |-> CountMatches(threat_keywords, t)]

\* _check_keyword_toxicity counting the terms of the English lexicon only
check_keyword_toxicity_EnglishOnly(text) ==
  LET matches == CountMatches(threat_keywords_en, text)
  IN  IF matches > 0
      THEN Min2(Milli(500) + matches * Milli(100), Milli(900))
      ELSE 0

\* MultilingualTextPredictor._check_keyword_toxicity
check_keyword_toxicity(text) ==
  LET matches == ThreatKeywordMatches[text]
  IN  IF matches > 0
      THEN Min2(Milli(500) + matches * Milli(100), Milli(900))
      ELSE 0

\* _check_threat_keywords without the cap at 1.0
check_threat_keywords_Uncapped(text) ==
  LET threat_matches == ThreatKeywordMatches[text]
  IN  IF threat_matches > 0
      THEN Milli(600) + threat_matches * Milli(150)
      ELSE 0

\* MultilingualTextPredictor._check_threat_keywords
check_threat_keywords(text) ==
  LET threat_matches == ThreatKeywordMatches[text]
  IN  IF threat_matches > 0
      THEN Min2(Milli(600) + threat_matches * Milli(150), One)
      ELSE 0

(***************************************************************************)
(* Language Identifier.  d is what langdetect.detect(text) does: it        *)
(* returns a language code ("ru" stands for the codes that lang_map does   *)
(* not hold), raises LangDetectException, or fails otherwise.              *)
(***************************************************************************)
LangDetectOutcomes == {"en", "kn", "hi", "ru", "LangDetectException", "Exception"}

LanguageInfo(l, c, p, m) ==
  [language |-> l, confidence |-> c, primary_language |-> p, mixed_languages |-> m]

\* detect_language with the confidence 0.7 on the whole fallback path
detect_language_FlatFallback(text, d) ==
  IF d = "Exception"
  THEN LanguageInfo("unknown", 0, "unknown", << >>)
  ELSE IF d = "LangDetectException"
  THEN IF HasKannada(text) /\ HasEnglish(text)
         THEN LanguageInfo("mixed", Milli(700), "kn", <<"en", "kn">>)
       ELSE IF HasHindi(text) /\ HasEnglish(text)
         THEN LanguageInfo("mixed", Milli(700), "hi", <<"en", "hi">>)
       ELSE IF HasKannada(text)
         THEN LanguageInfo("kn", Milli(700), "kn", <<"kn">>)
       ELSE IF HasHindi(text)
         THEN LanguageInfo("hi", Milli(700), "hi", <<"hi">>)
       ELSE IF HasEnglish(text)
         THEN LanguageInfo("en", Milli(700), "en", <<"en">>)
       ELSE LanguageInfo("unknown", Milli(700), "unknown", << >>)
  ELSE
    LET primary_lang == IF d \in {"en", "kn", "hi"} THEN d ELSE "unknown"
        languages_present ==
          (IF HasEnglish(text) THEN <<"en">> ELSE << >>)
            \o (IF HasKannada(text) THEN <<"kn">> ELSE << >>)
            \o (IF HasHindi(text) THEN <<"hi">> ELSE << >>)
        detected_language ==
          IF Len(languages_present) > 1 THEN "mixed"
          ELSE IF primary_lang # "unknown" THEN primary_lang
          ELSE IF Len(languages_present) > 0 THEN languages_present[1]
          ELSE "unknown"
        mixed_languages ==
          IF Len(languages_present) > 1 THEN languages_present ELSE << >>
    IN  LanguageInfo(detected_language, Milli(800), primary_lang,
                     IF Len(mixed_languages) > 0 THEN mixed_languages
                     ELSE <<detected_language>>)

\* MultilingualTextPredictor.detect_language
detect_language(text, d) ==
  IF d = "Exception"
  THEN LanguageInfo("unknown", 0, "unknown", << >>)
  ELSE IF d = "LangDetectException"
  THEN IF HasKannada(text) /\ HasEnglish(text)
         THEN LanguageInfo("mixed", Milli(700), "kn", <<"en", "kn">>)
       ELSE IF HasHindi(text) /\ HasEnglish(text)
         THEN LanguageInfo("mixed", Milli(700), "hi", <<"en", "hi">>)
       ELSE IF HasKannada(text)
         THEN LanguageInfo("kn", Milli(700), "kn", <<"kn">>)
       ELSE IF HasHindi(text)
         THEN LanguageInfo("hi", Milli(700), "hi", <<"hi">>)
       ELSE IF HasEnglish(text)
         THEN LanguageInfo("en", Milli(700), "en", <<"en">>)
       ELSE LanguageInfo("unknown", Milli(500), "unknown", << >>)
  ELSE
    LET primary_lang == IF d \in {"en", "kn", "hi"} THEN d ELSE "unknown"
        languages_present ==
          (IF HasEnglish(text) THEN <<"en">> ELSE << >>)
            \o (IF HasKannada(text) THEN <<"kn">> ELSE << >>)
            \o (IF HasHindi(text) THEN <<"hi">> ELSE << >>)
        detected_language ==
          IF Len(languages_present) > 1 THEN "mixed"
          ELSE IF primary_lang # "unknown" THEN primary_lang
          ELSE IF Len(languages_present) > 0 THEN languages_present[1]
          ELSE "unknown"
        mixed_languages ==
          IF Len(languages_present) > 1 THEN languages_present ELSE << >>
    IN  LanguageInfo(detected_language, Milli(800), primary_lang,
                     IF Len(mixed_languages) > 0 THEN mixed_languages
                     ELSE <<detected_language>>)

(***************************************************************************)
(* Neural score providers.  An outcome is what one inference does: it      *)
(* raises, or it yields the vector of probabilities (sigmoid of the logits *)
(* for toxicity, softmax for sentiment).                                   *)
(***************************************************************************)
Raises == [kind |-> "raise", probs |-> << >>]

Yields(v) == [kind |-> "probs", probs |-> v]

\* toxic-bert: toxic, severe_toxic, obscene, threat, insult, identity_hate;
\* a model with fewer labels yields a shorter vector; a sigmoid is not a
\* multiple of 0.001 in general, 0.7996 stands for those values
ToxicityOutcomes ==
  { Raises }
    \cup { Yields(<<a, c, 0, b, 0, 0>>) :
             a \in {0, Milli(100), Milli(500), Milli(800), Milli(900)},
             b \in {0, Milli(500), Milli(600)},
             c \in {0, Milli(800)} }
    \cup { Yields(<<a>>) : a \in {0, Milli(600), Milli(900)} }
    \cup { Yields(<<Milli(100), 799600, 0, 0, 0, 0>>),
           Yields(<<Milli(100), 0, Milli(950), 0, 0, 0>>) }

\* negative, neutral, positive; a binary model yields negative, positive
SentimentOutcomes ==
  { Raises,
    Yields(<<Milli(100), Milli(200), Milli(700)>>),
    Yields(<<Milli(850), Milli(100), Milli(50)>>),
    Yields(<<Milli(300), Milli(700)>>) }

labels == <<"toxic", "severe_toxic", "obscene", "threat", "insult", "identity_hate">>

\* x * w if x > t else 0.0, with the weight w in tenths
Derived(x, w, t) == IF x > t THEN Tenths(w, x) ELSE 0

(***************************************************************************)
(* Signal Fusion Engine.                                                   *)
(***************************************************************************)
\* KeywordFallback with the keyword weight of the English fusion applied
KeywordFallback_Weighted(keyword_toxicity, threat_prob) ==
  LET combined_toxicity == Tenths(3, keyword_toxicity)
  IN  [score  |-> Min2(combined_toxicity, One),
       labels |-> [toxic         |-> combined_toxicity,
                   severe_toxic  |-> Derived(combined_toxicity, 8, Milli(700)),
                   obscene       |-> Derived(combined_toxicity, 6, Milli(500)),
                   threat        |-> threat_prob,
                   insult        |-> Derived(combined_toxicity, 7, Milli(400)),
                   identity_hate |-> Derived(combined_toxicity, 5, Milli(600))]]

\* predict_toxicity, the keyword-only fallback after the model was skipped
\* or failed
KeywordFallback(keyword_toxicity, threat_prob) ==
  LET combined_toxicity == keyword_toxicity
  IN  [score  |-> Min2(combined_toxicity, One),
       labels |-> [toxic         |-> combined_toxicity,
                   severe_toxic  |-> Derived(combined_toxicity, 8, Milli(700)),
                   obscene       |-> Derived(combined_toxicity, 6, Milli(500)),
                   threat        |-> threat_prob,
                   insult        |-> Derived(combined_toxicity, 7, Milli(400)),
                   identity_hate |-> Derived(combined_toxicity, 5, Milli(600))]]

\* predict_toxicity, the weights of the model score and the keyword score
CombinedToxicity(detected_lang, model_toxicity, keyword_toxicity) ==
  IF detected_lang \in {"kn", "hi"}
  THEN IF model_toxicity > 0
       THEN Tenths(4, model_toxicity) + Tenths(6, keyword_toxicity)
       ELSE keyword_toxicity
  ELSE IF model_toxicity > 0
       THEN Tenths(7, model_toxicity) + Tenths(3, keyword_toxicity)
       ELSE keyword_toxicity

\* ModelFusion taking the threat label from the model alone
ModelFusion_ModelThreatOnly(detected_lang, prob_scores, keyword_toxicity, kw_threat_prob) ==
  LET model_toxicity == MaxOf({ prob_scores[i] : i \in 1..Len(prob_scores) })
      label_probs_model ==
        IF Len(prob_scores) >= 6
        THEN [toxic         |-> prob_scores[1],
              severe_toxic  |-> prob_scores[2],
              obscene       |-> prob_scores[3],
              threat        |-> prob_scores[4],
              insult        |-> prob_scores[5],
              identity_hate |-> prob_scores[6]]
        ELSE [toxic         |-> model_toxicity,
              severe_toxic  |-> Derived(model_toxicity, 8, Milli(700)),
              obscene       |-> Derived(model_toxicity, 6, Milli(500)),
              threat        |-> Max2(Tenths(7, model_toxicity), kw_threat_prob),
              insult        |-> Derived(model_toxicity, 7, Milli(400)),
              identity_hate |-> Derived(model_toxicity, 5, Milli(600))]
      combined_toxicity ==
        CombinedToxicity(detected_lang, model_toxicity, keyword_toxicity)
      threat_prob == label_probs_model.threat
      label_probs ==
        [toxic         |-> combined_toxicity,
         severe_toxic  |-> Max2(Derived(combined_toxicity, 8, Milli(700)),
                                label_probs_model.severe_toxic),
         obscene       |-> Max2(Derived(combined_toxicity, 6, Milli(500)),
                                label_probs_model.obscene),
         threat        |-> threat_prob,
         insult        |-> Max2(Derived(combined_toxicity, 7, Milli(400)),
                                label_probs_model.insult),
         identity_hate |-> Max2(Derived(combined_toxicity, 5, Milli(600)),
                                label_probs_model.identity_hate)]
      overall_toxicity ==
        Max2(combined_toxicity,
             MaxOf({ label_probs[l] : l \in DOMAIN label_probs }))
  IN  [score |-> Min2(overall_toxicity, One), labels |-> label_probs]

\* predict_toxicity, the branch that ran the model and got prob_scores
ModelFusion(detected_lang, prob_scores, keyword_toxicity, kw_threat_prob) ==
  LET model_toxicity == MaxOf({ prob_scores[i] : i \in 1..Len(prob_scores) })
      label_probs_model ==
        IF Len(prob_scores) >= 6
        THEN [toxic         |-> prob_scores[1],
              severe_toxic  |-> prob_scores[2],
              obscene       |-> prob_scores[3],
              threat        |-> prob_scores[4],
              insult        |-> prob_scores[5],
              identity_hate |-> prob_scores[6]]
        ELSE [toxic         |-> model_toxicity,
              severe_toxic  |-> Derived(model_toxicity, 8, Milli(700)),
              obscene       |-> Derived(model_toxicity, 6, Milli(500)),
              threat        |-> Max2(Tenths(7, model_toxicity), kw_threat_prob),
              insult        |-> Derived(model_toxicity, 7, Milli(400)),
              identity_hate |-> Derived(model_toxicity, 5, Milli(600))]
      combined_toxicity ==
        CombinedToxicity(detected_lang, model_toxicity, keyword_toxicity)
      threat_prob == Max2(kw_threat_prob, label_probs_model.threat)
      label_probs ==
        [toxic         |-> combined_toxicity,
         severe_toxic  |-> Max2(Derived(combined_toxicity, 8, Milli(700)),
                                label_probs_model.severe_toxic),
         obscene       |-> Max2(Derived(combined_toxicity, 6, Milli(500)),
                                label_probs_model.obscene),
         threat        |-> threat_prob,
         insult        |-> Max2(Derived(combined_toxicity, 7, Milli(400)),
                                label_probs_model.insult),
         identity_hate |-> Max2(Derived(combined_toxicity, 5, Milli(600)),
                                label_probs_model.identity_hate)]
      overall_toxicity ==
        Max2(combined_toxicity,
             MaxOf({ label_probs[l] : l \in DOMAIN label_probs }))
  IN  [score |-> Min2(overall_toxicity, One), labels |-> label_probs]

\* predict_toxicity, the condition under which the model is run on the text
ModelConsulted(text, language_info, loaded) ==
  /\ loaded
  /\ \/ HasEnglish(text)
     \/ language_info.language \in {"en", "mixed", "unknown"}

\* MultilingualTextPredictor.predict_toxicity; loaded is
\* `self.toxicity_model and self.toxicity_tokenizer`, out the outcome of the
\* inference when the model is run
predict_toxicity(text, language_info, loaded, out) ==
  LET keyword_toxicity == check_keyword_toxicity(text)
      threat_prob == check_threat_keywords(text)
  IN  IF ModelConsulted(text, language_info, loaded) /\ out.kind = "probs"
      THEN ModelFusion(language_info.language, out.probs,
                       keyword_toxicity, threat_prob)
      ELSE KeywordFallback(keyword_toxicity, threat_prob)

\* predict_sentiment returning the most negative score when the model fails
predict_sentiment_NegativeOnFailure(out) ==
  IF out.kind = "raise" THEN 0 - One
  ELSE IF Len(out.probs) >= 3
       THEN out.probs[3] - out.probs[1]
       ELSE (One - out.probs[1]) - out.probs[1]

\* MultilingualTextPredictor.predict_sentiment
predict_sentiment(out) ==
  IF out.kind = "raise" THEN 0
  ELSE IF Len(out.probs) >= 3
       THEN out.probs[3] - out.probs[1]
       ELSE (One - out.probs[1]) - out.probs[1]

(***************************************************************************)
(* Threat Detector and Severity Classifier.                                *)
(***************************************************************************)
\* any(keyword.lower() in text_lower for keyword in keywords)
KeywordMatch(keywords, text) ==
  \E i \in 1..Len(keywords) : Contains(Lower(keywords[i]), Lower(text))

\* KeywordMatch(threat_keywords, text), tabulated over the input texts
ThreatKeywordMatch == [t \in Texts |-> KeywordMatch(threat_keywords, t)]

\* any(keyword in text_lower for keyword in self.threat_keywords) of
\* TextPredictor, tabulated over the input texts
TextPredictor_KeywordMatch ==
  [t \in Texts |->
     \E i \in 1..Len(TextPredictor_threat_keywords) :
        Contains(TextPredictor_threat_keywords[i], Lower(t))]

\* the threat_prob argument when the caller passes None
None == -1

\* detect_threat with `>=` for `>` in the toxicity-only clause
detect_threat_Inclusive(text, toxicity_score, threat_prob) ==
  LET keyword_match == ThreatKeywordMatch[text]
      model_threat == threat_prob # None /\ threat_prob > Milli(500)
  IN  IF model_threat THEN TRUE
      ELSE IF keyword_match /\ toxicity_score > Milli(300) THEN TRUE
      ELSE IF toxicity_score >= Milli(800) THEN TRUE
      ELSE FALSE

\* MultilingualTextPredictor.detect_threat
detect_threat(text, toxicity_score, threat_prob) ==
  LET keyword_match == ThreatKeywordMatch[text]
      model_threat == threat_prob # None /\ threat_prob > Milli(500)
  IN  IF model_threat THEN TRUE
      ELSE IF keyword_match /\ toxicity_score > Milli(300) THEN TRUE
      ELSE IF toxicity_score > Milli(800) THEN TRUE
      ELSE FALSE

\* classify_severity without the `if is_threat: return 'critical'` override
classify_severity_ScoreOnly(toxicity_score, sentiment_score, is_threat) ==
  IF toxicity_score >= Milli(800) THEN "critical"
  ELSE IF toxicity_score >= Milli(600) THEN "high"
  ELSE IF toxicity_score >= Milli(400) THEN "medium"
  ELSE "low"

\* classify_severity with `>` for `>=` at the critical boundary
classify_severity_StrictCritical(toxicity_score, sentiment_score, is_threat) ==
  IF is_threat THEN "critical"
  ELSE IF toxicity_score > Milli(800) THEN "critical"
  ELSE IF toxicity_score >= Milli(600) THEN "high"
  ELSE IF toxicity_score >= Milli(400) THEN "medium"
  ELSE "low"

\* MultilingualTextPredictor.classify_severity
classify_severity(toxicity_score, sentiment_score, is_threat) ==
  IF is_threat THEN "critical"
  ELSE IF toxicity_score >= Milli(800) THEN "critical"
  ELSE IF toxicity_score >= Milli(600) THEN "high"
  ELSE IF toxicity_score >= Milli(400) THEN "medium"
  ELSE IF toxicity_score >= Milli(200) THEN "low"
  ELSE "low"

(***************************************************************************)
(* The English-only predictor (predictor.py).                              *)
(***************************************************************************)
\* TextPredictor.predict_toxicity: the score and the labels the model has
TextPredictor_predict_toxicity(out) ==
  IF out.kind = "raise"
  THEN [score |-> 0, labels |-> << >>]
  ELSE LET prob_scores == out.probs
           n == Min2(Len(labels), Len(prob_scores))
       IN  [score  |-> MaxOf({ prob_scores[i] : i \in 1..Len(prob_scores) }),
            labels |-> [l \in { labels[i] : i \in 1..n } |->
                          prob_scores[CHOOSE i \in 1..n : labels[i] = l]]]

\* TextPredictor.detect_threat; the keywords are matched as they are written
TextPredictor_detect_threat(text, toxicity_score, threat_prob) ==
  LET keyword_match == TextPredictor_KeywordMatch[text]
      model_threat == threat_prob # None /\ threat_prob > Milli(500)
  IN  IF model_threat THEN TRUE
      ELSE IF keyword_match /\ toxicity_score > Milli(300) THEN TRUE
      ELSE IF toxicity_score > Milli(800) THEN TRUE
      ELSE FALSE

\* TextPredictor.classify_severity
TextPredictor_classify_severity(toxicity_score, sentiment_score, is_threat) ==
  IF is_threat THEN "critical"
  ELSE IF toxicity_score >= Milli(800) THEN "critical"
  ELSE IF toxicity_score >= Milli(600) THEN "high"
  ELSE IF toxicity_score >= Milli(400) THEN "medium"
  ELSE IF toxicity_score >= Milli(200) THEN "low"
  ELSE "low"

(***************************************************************************)
(* predict: the response body.                                             *)
(***************************************************************************)
\* toxicity_labels.get('threat', 0.0)
ThreatLabel(toxicity_labels) ==
  IF "threat" \in DOMAIN toxicity_labels THEN toxicity_labels["threat"] ELSE 0

\* the "details" entry that both predict methods build
Details(toxicity_score, toxicity_labels, sentiment_score, threat_prob, is_threat, severity) ==
  [toxicity_breakdown |->
     [score  |-> Round3(toxicity_score),
      level  |-> IF toxicity_score > Milli(600) THEN "high"
                 ELSE IF toxicity_score > Milli(300) THEN "medium" ELSE "low",
      labels |-> [l \in DOMAIN toxicity_labels |-> Round3(toxicity_labels[l])]],
   sentiment_breakdown |->
     [score |-> Round3(sentiment_score),
      label |-> IF sentiment_score > Milli(200) THEN "positive"
                ELSE IF sentiment_score < 0 - Milli(200) THEN "negative"
                ELSE "neutral"],
   threat_analysis |->
     [detected          |-> is_threat,
      model_probability |-> Round3(threat_prob),
      reason            |-> IF threat_prob > Milli(500) THEN "model_detection"
                            ELSE IF is_threat THEN "keyword_match" ELSE "none"],
   severity_reasoning |->
     [severity |-> severity,
      factors  |-> [toxicity           |-> Round3(toxicity_score),
                    sentiment          |-> Round3(sentiment_score),
                    threat             |-> is_threat,
                    threat_probability |-> Round3(threat_prob)]]]

\* MultilingualTextPredictor.predict, from the values its calls returned
predict(text, language_info, toxicity, sentiment_score) ==
  LET toxicity_score == toxicity.score
      toxicity_labels == toxicity.labels
      threat_prob == ThreatLabel(toxicity_labels)
      is_threat == detect_threat(text, toxicity_score, threat_prob)
      severity == classify_severity(toxicity_score, sentiment_score, is_threat)
      confidence == Max2(toxicity_score, Abs(sentiment_score))
  IN  [toxicity_score    |-> Round3(toxicity_score),
       sentiment_score   |-> Round3(sentiment_score),
       severity          |-> severity,
       is_threat         |-> is_threat,
       confidence        |-> Round3(confidence),
       detected_language |-> language_info.language,
       details           |-> ("language_detection" :> language_info)
                               @@ Details(toxicity_score, toxicity_labels,
                                          sentiment_score, threat_prob,
                                          is_threat, severity)]

\* TextPredictor.predict, with the detected_language that analyze_text adds
TextPredictor_predict(text, toxicity, sentiment_score) ==
  LET toxicity_score == toxicity.score
      toxicity_labels == toxicity.labels
      threat_prob == ThreatLabel(toxicity_labels)
      is_threat == TextPredictor_detect_threat(text, toxicity_score, threat_prob)
      severity ==
        TextPredictor_classify_severity(toxicity_score, sentiment_score, is_threat)
      confidence == Max2(toxicity_score, Abs(sentiment_score))
  IN  [toxicity_score    |-> Round3(toxicity_score),
       sentiment_score   |-> Round3(sentiment_score),
       severity          |-> severity,
       is_threat         |-> is_threat,
       confidence        |-> Round3(confidence),
       detected_language |-> "unknown",
       details           |-> Details(toxicity_score, toxicity_labels,
                                     sentiment_score, threat_prob,
                                     is_threat, severity)]

(***************************************************************************)
(* State.                                                                  *)
(***************************************************************************)
VARIABLES
  \* ml-service (main.py and the predictor it constructed)
  USE_MULTILINGUAL,     \* main.py: which predictor class the service uses
  toxicity_model,       \* TRUE iff the predictor holds a toxicity model
  request,              \* the last POST /analyze: the text and what the
                        \* external models did during it
  calls,                \* what predict's calls returned during that request
  response,             \* the response to it
  last,                 \* the client: the request it sent before and the
                        \* response it received, when it keeps them
  \* direct calls of the decision functions
  call,                 \* the last call: function, arguments, result
  prev,                 \* the classify_severity call before it, if any
  \* discord-bot (bot.py)
  DELETE_MESSAGES,        \* configuration read from the environment
  WARN_USERS,
  ALERT_CHANNEL_ID,
  MIN_SEVERITY_TO_SAVE,
  MIN_SEVERITY_TO_DELETE,
  supabase,               \* TRUE iff the Supabase client was created
  bot_stats,              \* the module-level counters
  observed,               \* what happened outside the bot: messages that
                          \* passed the filters, deletions the gateway made,
                          \* rows the database inserted
  handler,                \* the on_message tasks, one per slot of the event loop
  received,               \* number of messages the gateway has delivered
  concurrency             \* number of on_message tasks that may be in flight

svcVars == <<USE_MULTILINGUAL, toxicity_model, request, calls, response, last>>

unitVars == <<call, prev>>

cfgVars ==
  <<DELETE_MESSAGES, WARN_USERS, ALERT_CHANNEL_ID, MIN_SEVERITY_TO_SAVE,
    MIN_SEVERITY_TO_DELETE, supabase, concurrency>>

botVars == <<cfgVars, bot_stats, observed, handler, received>>

vars == <<svcVars, unitVars, botVars>>

NoRequest == [text |-> << >>, lang |-> "-", tox |-> "-", sent |-> "-"]

NoCalls == "-"

NoResponse == [status |-> 0]

NoLast == [kept |-> FALSE]

NoCall == [fn |-> "-"]

NotRun == [kind |-> "not run", probs |-> << >>]

(***************************************************************************)
(* ml-service: construction, and POST /analyze.                            *)
(***************************************************************************)
\* main.py builds the predictor; load_models tolerates a missing toxicity
\* model in the multilingual predictor only, and never a missing sentiment
\* model
InitService ==
  /\ USE_MULTILINGUAL \in BOOLEAN
  /\ toxicity_model \in (IF USE_MULTILINGUAL THEN BOOLEAN ELSE {TRUE})
  /\ request = NoRequest
  /\ calls = NoCalls
  /\ response = NoResponse
  /\ last = NoLast

InitUnit ==
  /\ call = NoCall
  /\ prev = NoCall

\* main.analyze_text with the multilingual predictor
AnalyzeMultilingual(text, d, tout, sout) ==
  LET language_info == detect_language(text, d)
      consulted == ModelConsulted(text, language_info, toxicity_model)
      toxicity == predict_toxicity(text, language_info, toxicity_model, tout)
      sentiment_score == predict_sentiment(sout)
  IN  /\ d \in LangDetectOutcomes
      /\ tout \in (IF consulted THEN ToxicityOutcomes ELSE {NotRun})
      /\ sout \in SentimentOutcomes
      /\ request' = [text |-> text, lang |-> d, tox |-> tout, sent |-> sout]
      /\ calls' = [language_info |-> language_info,
                   keyword_toxicity |-> check_keyword_toxicity(text),
                   threat_keywords |-> check_threat_keywords(text),
                   toxicity |-> toxicity,
                   sentiment_score |-> sentiment_score]
      /\ response' = [status |-> 200,
                      body |-> predict(text, language_info, toxicity,
                                       sentiment_score)]

\* main.analyze_text with the English-only predictor
AnalyzeEnglish(text, tout, sout) ==
  LET toxicity == TextPredictor_predict_toxicity(tout)
      sentiment_score == predict_sentiment(sout)
  IN  /\ tout \in ToxicityOutcomes
      /\ sout \in { o \in SentimentOutcomes : o.kind = "raise" \/ Len(o.probs) >= 3 }
      /\ request' = [text |-> text, lang |-> "-", tox |-> tout, sent |-> sout]
      /\ calls' = [language_info |-> LanguageInfo("unknown", 0, "unknown", << >>),
                   toxicity |-> toxicity,
                   sentiment_score |-> sentiment_score]
      /\ response' = [status |-> 200,
                      body |-> TextPredictor_predict(text, toxicity,
                                                     sentiment_score)]

\* Analyze forgetting the toxicity model after the request
Analyze_UnloadsModel(text, D, T, S) ==
  /\ response = NoResponse
  /\ IF Len(text) = 0 \/ IsBlank(text)
     THEN /\ request' = [text |-> text, lang |-> "-", tox |-> "-", sent |-> "-"]
          /\ calls' = NoCalls
          /\ response' = [status |-> 500, raised |-> 400,
                          detail |-> "Text cannot be empty"]
     ELSE IF USE_MULTILINGUAL
     THEN \E d \in D, tout \in T, sout \in S :
             AnalyzeMultilingual(text, d, tout, sout)
     ELSE \E tout \in T, sout \in S : AnalyzeEnglish(text, tout, sout)
  /\ toxicity_model' = FALSE
  /\ UNCHANGED USE_MULTILINGUAL
  /\ UNCHANGED <<unitVars, botVars>>

\* main.analyze_text on one text, langdetect and the two models drawing
\* their outcomes from D, T and S.  The HTTPException(400) for an empty text
\* is raised inside the try block, whose `except Exception` turns it into a
\* 500; the response keeps the status and the detail of the exception that
\* was raised first, which the detail of the 500 quotes
Analyze(text, D, T, S) ==
  /\ response = NoResponse
  /\ IF Len(text) = 0 \/ IsBlank(text)
     THEN /\ request' = [text |-> text, lang |-> "-", tox |-> "-", sent |-> "-"]
          /\ calls' = NoCalls
          /\ response' = [status |-> 500, raised |-> 400,
                          detail |-> "Text cannot be empty"]
     ELSE IF USE_MULTILINGUAL
     THEN \E d \in D, tout \in T, sout \in S :
             AnalyzeMultilingual(text, d, tout, sout)
     ELSE \E tout \in T, sout \in S : AnalyzeEnglish(text, tout, sout)
  /\ UNCHANGED <<USE_MULTILINGUAL, toxicity_model>>
  /\ UNCHANGED <<unitVars, botVars>>

\* main.analyze_text answering a request
analyze_text ==
  /\ \E text \in Texts :
       Analyze(text, LangDetectOutcomes, ToxicityOutcomes \cup {NotRun},
               SentimentOutcomes)
  /\ UNCHANGED last

\* the response has been sent: nothing of the request stays in the service
ResponseSent ==
  /\ response # NoResponse
  /\ request' = NoRequest
  /\ calls' = NoCalls
  /\ response' = NoResponse
  /\ UNCHANGED <<USE_MULTILINGUAL, toxicity_model, last>>
  /\ UNCHANGED <<unitVars, botVars>>

\* the outcomes of the external calls in the requests a client repeats
RepeatedLangDetect == LangDetectOutcomes

RepeatedToxicity ==
  { Raises, NotRun, Yields(<<Milli(500), 0, 0, Milli(600), 0, 0>>),
    Yields(<<Milli(900)>>) }

RepeatedSentiment ==
  { Raises, Yields(<<Milli(850), Milli(100), Milli(50)>>),
    Yields(<<Milli(300), Milli(700)>>) }

\* a client sends its first request
FirstRequest ==
  /\ last = NoLast
  /\ \E text \in Texts :
       Analyze(text, RepeatedLangDetect, RepeatedToxicity, RepeatedSentiment)
  /\ UNCHANGED last

\* the response has been sent to a client that keeps it with its request
ResponseReceived ==
  /\ response # NoResponse
  /\ last' = [kept |-> TRUE, request |-> request, response |-> response]
  /\ request' = NoRequest
  /\ calls' = NoCalls
  /\ response' = NoResponse
  /\ UNCHANGED <<USE_MULTILINGUAL, toxicity_model>>
  /\ UNCHANGED <<unitVars, botVars>>

\* the client sends the same text again, and langdetect and the models, as
\* far as predict calls them, do what they did the first time
RepeatRequest ==
  /\ last # NoLast
  /\ Analyze(last.request.text, {last.request.lang},
             {last.request.tox, NotRun}, {last.request.sent})
  /\ UNCHANGED last

(***************************************************************************)
(* discord-bot: configuration and decision functions.                      *)
(***************************************************************************)
Severities == {"low", "medium", "high", "critical"}

\* bot.py get_severity_level
get_severity_level(severity) ==
  CASE severity = "low" -> 1
    [] severity = "medium" -> 2
    [] severity = "high" -> 3
    [] severity = "critical" -> 4
    [] OTHER -> 0

\* should_save_incident without the `if is_threat: return True` override
should_save_incident_ThresholdOnly(severity, is_threat) ==
  get_severity_level(severity) >= get_severity_level(MIN_SEVERITY_TO_SAVE)

\* should_save_incident with `>` for `>=`
should_save_incident_Strict(severity, is_threat) ==
  IF is_threat THEN TRUE
  ELSE get_severity_level(severity) > get_severity_level(MIN_SEVERITY_TO_SAVE)

\* bot.py should_save_incident
should_save_incident(severity, is_threat) ==
  LET min_level == get_severity_level(MIN_SEVERITY_TO_SAVE)
      severity_level == get_severity_level(severity)
  IN  IF is_threat THEN TRUE
      ELSE severity_level >= min_level

\* bot.py should_delete_message
should_delete_message(severity, is_threat) ==
  IF ~DELETE_MESSAGES THEN FALSE
  ELSE LET min_level == get_severity_level(MIN_SEVERITY_TO_DELETE)
           severity_level == get_severity_level(severity)
       IN  IF is_threat THEN TRUE
           ELSE severity_level >= min_level

\* `if ALERT_CHANNEL_ID:` in on_message
AlertConfigured == ALERT_CHANNEL_ID # "None"

\* the channels of the guilds the bot is in
GuildChannels == {"1234"}

\* send_alert: bot.get_channel(int(ALERT_CHANNEL_ID)) finds a channel
AlertChannelFound == ALERT_CHANNEL_ID \in GuildChannels

\* the module-level configuration, as the environment sets it
InitConfig ==
  /\ DELETE_MESSAGES \in BOOLEAN
  /\ WARN_USERS \in BOOLEAN
  /\ ALERT_CHANNEL_ID \in {"None", "1234", "9999"}
  /\ MIN_SEVERITY_TO_SAVE \in Severities
  /\ MIN_SEVERITY_TO_DELETE \in Severities
  /\ supabase \in BOOLEAN

\* the configuration when the environment sets nothing
DefaultConfig ==
  /\ DELETE_MESSAGES = TRUE
  /\ WARN_USERS = TRUE
  /\ ALERT_CHANNEL_ID = "None"
  /\ MIN_SEVERITY_TO_SAVE = "medium"
  /\ MIN_SEVERITY_TO_DELETE = "critical"
  /\ supabase = FALSE

\* the default thresholds with the database and the alert channel set up
DeployedConfig ==
  /\ DELETE_MESSAGES = TRUE
  /\ WARN_USERS = TRUE
  /\ ALERT_CHANNEL_ID = "1234"
  /\ MIN_SEVERITY_TO_SAVE = "medium"
  /\ MIN_SEVERITY_TO_DELETE = "critical"
  /\ supabase = TRUE

(***************************************************************************)
(* discord-bot: on_message.  The handler is a coroutine: it runs without   *)
(* interruption up to the next await of a gateway call, and resumes when   *)
(* that call returns or raises.  analyze_message (requests.post) and       *)
(* save_incident (the Supabase insert) do not suspend it: requests.post    *)
(* keeps the thread of the event loop until the ML service has answered or *)
(* the timeout of 10 s is over, and no coroutine is resumed meanwhile.     *)
(***************************************************************************)
Slots == 1..MaxInFlight

NoAnalysis == [ok |-> FALSE, severity |-> "-", is_threat |-> FALSE]

\* what the ML service call does: a JSON body, or one of the failures
AnalysisOutcomes ==
  { [kind |-> k, body |-> NoAnalysis] :
      k \in {"Timeout", "RequestException", "Exception"} }
    \cup { [kind |-> "ok",
            body |-> [ok |-> TRUE, severity |-> sv, is_threat |-> th]] :
             sv \in Severities, th \in BOOLEAN }

\* bot.py analyze_message: None on every failure
analyze_message(o) == IF o.kind = "ok" THEN o.body ELSE NoAnalysis

\* what the insert does when the client exists
InsertOutcomes == {"saved", "no data", "exception"}

\* bot.py save_incident: "saved" iff the incident was stored
save_incident(o) ==
  IF ~supabase THEN "not configured" ELSE o

MessageKinds == {"bot", "command", "empty", "text"}

IdleHandler ==
  [pc |-> "idle", kind |-> "-", analysis |-> NoAnalysis,
   save_decision |-> "-", incident |-> "-", alert |-> "-",
   delete_decision |-> "-", deletion |-> "-", warning |-> "-"]

\* on_message from `if should_delete_message(...)` to its await, or to
\* process_commands
DeleteStep(h) ==
  IF should_delete_message(h.analysis.severity, h.analysis.is_threat)
  THEN [h EXCEPT !.delete_decision = "delete", !.deletion = "pending",
                 !.pc = "message_delete"]
  ELSE [h EXCEPT !.delete_decision = "keep", !.pc = "process_commands"]

\* AlertStep with the alert block moved into the delete branch
AlertStep_OnlyWhenDeleting(h) ==
  IF AlertConfigured
       /\ should_delete_message(h.analysis.severity, h.analysis.is_threat)
  THEN IF AlertChannelFound
       THEN [h EXCEPT !.alert = "pending", !.pc = "alert_send"]
       ELSE DeleteStep([h EXCEPT !.alert = "no channel"])
  ELSE DeleteStep(h)

\* on_message from `if ALERT_CHANNEL_ID:` on; send_alert runs up to its
\* await of alert_channel.send unless bot.get_channel finds no channel
AlertStep(h) ==
  IF AlertConfigured
  THEN IF AlertChannelFound
       THEN [h EXCEPT !.alert = "pending", !.pc = "alert_send"]
       ELSE DeleteStep([h EXCEPT !.alert = "no channel"])
  ELSE DeleteStep(h)

\* SaveStep giving up the alert and the deletion when the incident was not
\* stored
SaveStep_RetractOnFailure(h, insert) ==
  IF should_save_incident(h.analysis.severity, h.analysis.is_threat)
  THEN IF save_incident(insert) = "saved"
       THEN AlertStep([h EXCEPT !.save_decision = "save",
                                !.incident = save_incident(insert)])
       ELSE [h EXCEPT !.save_decision = "save",
                      !.incident = save_incident(insert),
                      !.pc = "process_commands"]
  ELSE [h EXCEPT !.save_decision = "skip", !.pc = "process_commands"]

\* on_message from `if should_save_incident(...)` on
SaveStep(h, insert) ==
  IF should_save_incident(h.analysis.severity, h.analysis.is_threat)
  THEN AlertStep([h EXCEPT !.save_decision = "save",
                           !.incident = save_incident(insert)])
  ELSE [h EXCEPT !.save_decision = "skip", !.pc = "process_commands"]

\* the thread of the event loop is inside requests.post
LoopBlocked == \E k \in Slots : handler[k].pc = "analyze_message"

\* AnalyzeStep deleting the message when the analysis failed
AnalyzeStep_DeletesOnFailure(i, h0) ==
  \E o \in AnalysisOutcomes :
    LET analysis == analyze_message(o)
        h1 == [h0 EXCEPT !.analysis = analysis]
    IN  IF ~analysis.ok
        THEN /\ handler' = [handler EXCEPT ![i] =
                               [h1 EXCEPT !.pc = "message_delete",
                                          !.delete_decision = "delete",
                                          !.deletion = "pending"]]
             /\ UNCHANGED <<bot_stats, observed>>
        ELSE \E insert \in InsertOutcomes :
               LET h2 == SaveStep(h1, insert)
               IN  /\ handler' = [handler EXCEPT ![i] = h2]
                   /\ bot_stats' =
                        [bot_stats EXCEPT
                           !.incidents_detected =
                              IF h2.incident = "saved" THEN @ + 1 ELSE @]
                   /\ observed' =
                        [observed EXCEPT
                           !.inserted =
                              IF h2.incident = "saved" THEN @ + 1 ELSE @]

\* on_message from the return of analyze_message on: decide, save
AnalyzeStep(i, h0) ==
  \E o \in AnalysisOutcomes :
    LET analysis == analyze_message(o)
        h1 == [h0 EXCEPT !.analysis = analysis]
    IN  IF ~analysis.ok
        THEN /\ handler' = [handler EXCEPT ![i] = [h1 EXCEPT !.pc = "done"]]
             /\ UNCHANGED <<bot_stats, observed>>
        ELSE \E insert \in InsertOutcomes :
               LET h2 == SaveStep(h1, insert)
               IN  /\ handler' = [handler EXCEPT ![i] = h2]
                   /\ bot_stats' =
                        [bot_stats EXCEPT
                           !.incidents_detected =
                              IF h2.incident = "saved" THEN @ + 1 ELSE @]
                   /\ observed' =
                        [observed EXCEPT
                           !.inserted =
                              IF h2.incident = "saved" THEN @ + 1 ELSE @]

\* on_message without `bot_stats["messages_analyzed"] += 1`
on_message_Uncounted(i) ==
  /\ i <= concurrency
  /\ ~LoopBlocked
  /\ handler[i].pc \in {"idle", "done"}
  /\ received < MaxMessages
  /\ received' = received + 1
  /\ \E kind \in MessageKinds :
       LET h0 == [IdleHandler EXCEPT !.kind = kind]
       IN  IF kind \in {"bot", "empty"}
           THEN /\ handler' = [handler EXCEPT ![i] = [h0 EXCEPT !.pc = "done"]]
                /\ UNCHANGED <<bot_stats, observed>>
           ELSE IF kind = "command"
           THEN /\ handler' = [handler EXCEPT ![i] =
                                 [h0 EXCEPT !.pc = "process_commands"]]
                /\ UNCHANGED <<bot_stats, observed>>
           ELSE /\ handler' = [handler EXCEPT ![i] =
                                 [h0 EXCEPT !.pc = "analyze_message"]]
                /\ bot_stats' = bot_stats
                /\ observed' = [observed EXCEPT !.passed = @ + 1]
  /\ UNCHANGED <<cfgVars, svcVars, unitVars>>

\* on_message, from its start to the call of requests.post, or to its end
\* for a message that a filter drops
on_message(i) ==
  /\ i <= concurrency
  /\ ~LoopBlocked
  /\ handler[i].pc \in {"idle", "done"}
  /\ received < MaxMessages
  /\ received' = received + 1
  /\ \E kind \in MessageKinds :
       LET h0 == [IdleHandler EXCEPT !.kind = kind]
       IN  IF kind \in {"bot", "empty"}
           THEN /\ handler' = [handler EXCEPT ![i] = [h0 EXCEPT !.pc = "done"]]
                /\ UNCHANGED <<bot_stats, observed>>
           ELSE IF kind = "command"
           THEN /\ handler' = [handler EXCEPT ![i] =
                                 [h0 EXCEPT !.pc = "process_commands"]]
                /\ UNCHANGED <<bot_stats, observed>>
           ELSE /\ handler' = [handler EXCEPT ![i] =
                                 [h0 EXCEPT !.pc = "analyze_message"]]
                /\ bot_stats' = [bot_stats EXCEPT !.messages_analyzed = @ + 1]
                /\ observed' = [observed EXCEPT !.passed = @ + 1]
  /\ UNCHANGED <<cfgVars, svcVars, unitVars>>

\* requests.post returned or raised; on_message runs on to its next
\* suspension
AnalyzeMessageReturns(i) ==
  /\ handler[i].pc = "analyze_message"
  /\ AnalyzeStep(i, handler[i])
  /\ UNCHANGED <<cfgVars, received, svcVars, unitVars>>

\* send_alert resumes: alert_channel.send returned or raised (swallowed);
\* on_message goes on to the delete check
AlertSendReturns(i) ==
  /\ ~LoopBlocked
  /\ handler[i].pc = "alert_send"
  /\ \E ok \in BOOLEAN :
       handler' = [handler EXCEPT ![i] =
                     DeleteStep([@ EXCEPT !.alert = IF ok THEN "sent" ELSE "failed"])]
  /\ UNCHANGED <<cfgVars, bot_stats, observed, received, svcVars, unitVars>>

DeleteOutcomes == {"deleted", "Forbidden", "NotFound", "HTTPException"}

\* AfterDelete with the warning sent after the try block, whatever the
\* deletion did
AfterDelete_WarnOnFailure(h, outcome) ==
  IF WARN_USERS
  THEN [h EXCEPT !.deletion = outcome, !.warning = "pending",
                 !.pc = "warning_send"]
  ELSE [h EXCEPT !.deletion = outcome, !.pc = "process_commands"]

\* AfterDelete awaiting message.delete() again after it failed
AfterDelete_RetryOnFailure(h, outcome) ==
  IF outcome = "deleted"
  THEN IF WARN_USERS
       THEN [h EXCEPT !.deletion = outcome, !.warning = "pending",
                      !.pc = "warning_send"]
       ELSE [h EXCEPT !.deletion = outcome, !.pc = "process_commands"]
  ELSE [h EXCEPT !.deletion = outcome, !.pc = "message_delete"]

\* on_message after `await message.delete()`: count and warn, or log the error
AfterDelete(h, outcome) ==
  IF outcome = "deleted"
  THEN IF WARN_USERS
       THEN [h EXCEPT !.deletion = outcome, !.warning = "pending",
                      !.pc = "warning_send"]
       ELSE [h EXCEPT !.deletion = outcome, !.pc = "process_commands"]
  ELSE [h EXCEPT !.deletion = outcome, !.pc = "process_commands"]

\* MessageDeleteReturns counting the deletion whatever message.delete() did
MessageDeleteReturns_CountsAttempts(i) ==
  /\ ~LoopBlocked
  /\ handler[i].pc = "message_delete"
  /\ \E outcome \in DeleteOutcomes :
       /\ handler' = [handler EXCEPT ![i] = AfterDelete(@, outcome)]
       /\ bot_stats' = [bot_stats EXCEPT !.messages_deleted = @ + 1]
       /\ observed' = [observed EXCEPT !.deleted =
                         IF outcome = "deleted" THEN @ + 1 ELSE @]
  /\ UNCHANGED <<cfgVars, received, svcVars, unitVars>>

\* message.delete() returned or raised
MessageDeleteReturns(i) ==
  /\ ~LoopBlocked
  /\ handler[i].pc = "message_delete"
  /\ \E outcome \in DeleteOutcomes :
       /\ handler' = [handler EXCEPT ![i] = AfterDelete(@, outcome)]
       /\ bot_stats' = [bot_stats EXCEPT !.messages_deleted =
                          IF outcome = "deleted" THEN @ + 1 ELSE @]
       /\ observed' = [observed EXCEPT !.deleted =
                         IF outcome = "deleted" THEN @ + 1 ELSE @]
  /\ UNCHANGED <<cfgVars, received, svcVars, unitVars>>

\* message.channel.send(warning) returned, or raised into the except
\* clauses of the delete block
WarningSendReturns(i) ==
  /\ ~LoopBlocked
  /\ handler[i].pc = "warning_send"
  /\ \E ok \in BOOLEAN :
       handler' = [handler EXCEPT ![i] =
                     IF ok THEN [@ EXCEPT !.warning = "sent", !.pc = "sleep"]
                     ELSE [@ EXCEPT !.warning = "failed",
                                    !.pc = "process_commands"]]
  /\ UNCHANGED <<cfgVars, bot_stats, observed, received, svcVars, unitVars>>

\* asyncio.sleep(10) is over
SleepReturns(i) ==
  /\ ~LoopBlocked
  /\ handler[i].pc = "sleep"
  /\ handler' = [handler EXCEPT ![i] = [@ EXCEPT !.pc = "warning_delete"]]
  /\ UNCHANGED <<cfgVars, bot_stats, observed, received, svcVars, unitVars>>

\* warning_msg.delete() returned or raised (bare except: pass)
WarningDeleteReturns(i) ==
  /\ ~LoopBlocked
  /\ handler[i].pc = "warning_delete"
  /\ \E ok \in BOOLEAN :
       handler' = [handler EXCEPT ![i] =
                     [@ EXCEPT !.warning = IF ok THEN "removed" ELSE "remove failed",
                               !.pc = "process_commands"]]
  /\ UNCHANGED <<cfgVars, bot_stats, observed, received, svcVars, unitVars>>

\* bot.process_commands(message) returned: the handler is finished
ProcessCommandsReturns(i) ==
  /\ ~LoopBlocked
  /\ handler[i].pc = "process_commands"
  /\ handler' = [handler EXCEPT ![i] = [@ EXCEPT !.pc = "done"]]
  /\ UNCHANGED <<cfgVars, bot_stats, observed, received, svcVars, unitVars>>

\* the bot after import: counters at zero, no handler running
InitBotState ==
  /\ bot_stats = [messages_analyzed |-> 0, incidents_detected |-> 0,
                  messages_deleted |-> 0]
  /\ observed = [passed |-> 0, inserted |-> 0, deleted |-> 0]
  /\ handler = [i \in Slots |-> IdleHandler]
  /\ received = 0

(***************************************************************************)
(* Direct calls of the decision functions of the predictors, as a unit     *)
(* test makes them: arbitrary arguments, one call at a time.               *)
(***************************************************************************)
Predictors == {"MultilingualTextPredictor", "TextPredictor"}

\* toxicity scores around every threshold of the decision functions
ScoreGrid ==
  { 0, Milli(100), Milli(199), Milli(200), Milli(300), Milli(301), Milli(399),
    Milli(400), Milli(599), Milli(600), Milli(799), Milli(800), Milli(801), One }

ThreatProbGrid == { None, 0, Milli(500), Milli(501), One }

SentimentGrid == { 0 - One, 0, One }

Call_detect_threat ==
  /\ call = NoCall
  /\ \E p \in Predictors, text \in Texts, toxicity_score \in ScoreGrid,
        threat_prob \in ThreatProbGrid :
       call' = [fn |-> "detect_threat", self |-> p, text |-> text,
                toxicity_score |-> toxicity_score, threat_prob |-> threat_prob,
                result |-> IF p = "TextPredictor"
                           THEN TextPredictor_detect_threat(text, toxicity_score,
                                                            threat_prob)
                           ELSE detect_threat(text, toxicity_score, threat_prob)]
  /\ prev' = NoCall
  /\ UNCHANGED <<svcVars, botVars>>

Call_classify_severity ==
  /\ call = NoCall
  /\ \E p \in Predictors, toxicity_score \in ScoreGrid,
        sentiment_score \in SentimentGrid, is_threat \in BOOLEAN :
       call' = [fn |-> "classify_severity", self |-> p,
                toxicity_score |-> toxicity_score,
                sentiment_score |-> sentiment_score, is_threat |-> is_threat,
                result |-> IF p = "TextPredictor"
                           THEN TextPredictor_classify_severity(
                                  toxicity_score, sentiment_score, is_threat)
                           ELSE classify_severity(toxicity_score, sentiment_score,
                                                  is_threat)]
  /\ UNCHANGED prev
  /\ UNCHANGED <<svcVars, botVars>>

\* the call returned; a classify_severity call is kept for comparison with
\* the next one
Return ==
  /\ call # NoCall
  /\ prev' = IF call.fn = "classify_severity" THEN call ELSE NoCall
  /\ call' = NoCall
  /\ UNCHANGED <<svcVars, botVars>>

(***************************************************************************)
(* Specifications.                                                         *)
(***************************************************************************)
ServiceIdle ==
  /\ USE_MULTILINGUAL = TRUE
  /\ toxicity_model = TRUE
  /\ request = NoRequest
  /\ calls = NoCalls
  /\ response = NoResponse
  /\ last = NoLast

\* the ml-service answering requests
Init ==
  /\ InitService /\ InitUnit
  /\ DefaultConfig /\ InitBotState /\ concurrency = 0

Next == analyze_text \/ ResponseSent

Spec == Init /\ [][Next]_vars

\* the ml-service answering a request and its repetition
NextRepeat == FirstRequest \/ ResponseReceived \/ RepeatRequest

SpecRepeat == Init /\ [][NextRepeat]_vars

\* the decision functions called directly
InitUnitCalls ==
  /\ ServiceIdle /\ InitUnit
  /\ DefaultConfig /\ InitBotState /\ concurrency = 0

NextUnit == Call_detect_threat \/ Call_classify_severity \/ Return

SpecUnit == InitUnitCalls /\ [][NextUnit]_vars

\* the bot handling one message after the other, under every configuration
InitBot ==
  /\ ServiceIdle /\ InitUnit
  /\ InitConfig /\ InitBotState /\ concurrency = 1

NextBot ==
  \E i \in Slots :
    \/ on_message(i)
    \/ AnalyzeMessageReturns(i)
    \/ AlertSendReturns(i)
    \/ MessageDeleteReturns(i)
    \/ WarningSendReturns(i)
    \/ SleepReturns(i)
    \/ WarningDeleteReturns(i)
    \/ ProcessCommandsReturns(i)

SpecBot == InitBot /\ [][NextBot]_vars

\* the bot with as many on_message tasks in flight as the event loop holds:
\* discord.py starts a task for every message the gateway delivers
InitConcurrent ==
  /\ ServiceIdle /\ InitUnit
  /\ DeployedConfig /\ InitBotState /\ concurrency = MaxInFlight

SpecConcurrent == InitConcurrent /\ [][NextBot]_vars

(***************************************************************************)
(* Properties.                                                             *)
(***************************************************************************)
\* the fixed ordinal mapping of the severities
SeverityOrdinal == [low |-> 1, medium |-> 2, high |-> 3, critical |-> 4]

\* the handlers that hold an analysis result
Analyzed == { i \in Slots : handler[i].analysis.ok }

\* C1: whatever the severity and the two thresholds are, a threat is saved,
\* and it is deleted exactly when DELETE_MESSAGES is set; the handler takes
\* these decisions for every threat it analyzed, also at severity 'low'.
C1_ThreatOverridesThresholds ==
  /\ \A sv \in Severities :
       /\ should_save_incident(sv, TRUE)
       /\ should_delete_message(sv, TRUE) = DELETE_MESSAGES
  /\ \A i \in Analyzed :
       handler[i].analysis.is_threat =>
         /\ handler[i].save_decision = "save"
         /\ handler[i].delete_decision # "-" =>
              ((handler[i].delete_decision = "delete") = DELETE_MESSAGES)

\* a threat of severity 'low' under the strictest thresholds, deleted
C1_Witness ==
  \E i \in Analyzed :
    /\ handler[i].analysis.is_threat
    /\ handler[i].analysis.severity = "low"
    /\ MIN_SEVERITY_TO_SAVE = "critical"
    /\ MIN_SEVERITY_TO_DELETE = "critical"
    /\ handler[i].save_decision = "save"
    /\ handler[i].delete_decision = "delete"

\* C3: the save decision is is_threat OR ordinal(severity) >=
\* ordinal(MIN_SEVERITY_TO_SAVE), for every severity, threat flag and
\* threshold; the handler decides so for every message it analyzed.
C3_SaveDecision ==
  /\ \A sv \in Severities, th \in BOOLEAN :
       should_save_incident(sv, th) =
         (th \/ SeverityOrdinal[sv] >= SeverityOrdinal[MIN_SEVERITY_TO_SAVE])
  /\ \A i \in Analyzed :
       LET a == handler[i].analysis
       IN  /\ handler[i].save_decision \in {"save", "skip"}
           /\ (handler[i].save_decision = "save") =
                (a.is_threat \/ SeverityOrdinal[a.severity]
                                  >= SeverityOrdinal[MIN_SEVERITY_TO_SAVE])
           /\ (MIN_SEVERITY_TO_SAVE = "medium" /\ ~a.is_threat) =>
                ((handler[i].save_decision = "save")
                   = (a.severity \in {"medium", "high", "critical"}))

\* a non-threat exactly at the threshold 'medium' is saved
C3_Witness ==
  \E i \in Analyzed :
    /\ ~handler[i].analysis.is_threat
    /\ handler[i].analysis.severity = "medium"
    /\ MIN_SEVERITY_TO_SAVE = "medium"
    /\ handler[i].save_decision = "save"

\* C4: a finished handler has attempted message.delete() exactly when
\* DELETE_MESSAGES AND (is_threat OR ordinal(severity) >=
\* ordinal(MIN_SEVERITY_TO_DELETE)), whatever MIN_SEVERITY_TO_SAVE is and
\* whether or not the incident was saved.
C4_DeleteAttemptedIffDecision ==
  \A i \in Analyzed :
    LET a == handler[i].analysis
    IN  handler[i].pc = "done" =>
          ((handler[i].deletion # "-") =
             (DELETE_MESSAGES
                /\ (a.is_threat \/ SeverityOrdinal[a.severity]
                                     >= SeverityOrdinal[MIN_SEVERITY_TO_DELETE])))

Answered == response.status = 200

\* C2: in every result of predict, of either predictor and whatever the
\* language and the neural models did, is_threat implies severity
\* 'critical', also where the toxicity score alone gives a lower band; and
\* classify_severity returns 'critical' for a threat at any score.
C2_ThreatIsCritical ==
  /\ Answered => (response.body.is_threat => response.body.severity = "critical")
  /\ \A x \in ScoreGrid, sn \in SentimentGrid :
       /\ classify_severity(x, sn, TRUE) = "critical"
       /\ TextPredictor_classify_severity(x, sn, TRUE) = "critical"

\* a threat whose toxicity score is in the band 'high' was classified critical
C2_Witness ==
  /\ Answered
  /\ response.body.is_threat
  /\ calls.toxicity.score < Milli(800)
  /\ response.body.severity = "critical"

\* the band of a toxicity score when there is no threat
SeverityBand(x) ==
  CASE x >= Milli(800) -> "critical"
    [] x >= Milli(600) /\ x < Milli(800) -> "high"
    [] x >= Milli(400) /\ x < Milli(600) -> "medium"
    [] x < Milli(400) -> "low"

\* C7: classify_severity returns a severity for every score; without a
\* threat it is critical from 0.8 on (0.8 included), high on [0.6, 0.8),
\* medium on [0.4, 0.6) and low below 0.4; a higher score never gets a lower
\* severity, and two calls that differ in the sentiment score only agree.
C7_SeverityBands ==
  /\ call.fn = "classify_severity" =>
       /\ call.result \in Severities
       /\ ~call.is_threat => call.result = SeverityBand(call.toxicity_score)
       /\ (~call.is_threat /\ call.toxicity_score = Milli(800)) =>
            call.result = "critical"
  /\ (call.fn = "classify_severity" /\ prev.fn = "classify_severity"
        /\ prev.is_threat = call.is_threat) =>
       /\ prev.toxicity_score <= call.toxicity_score =>
            SeverityOrdinal[prev.result] <= SeverityOrdinal[call.result]
       /\ prev.toxicity_score = call.toxicity_score =>
            prev.result = call.result

\* two calls without threat at 0.799 and at 0.8, with different sentiment
C7_Witness ==
  /\ call.fn = "classify_severity" /\ prev.fn = "classify_severity"
  /\ ~call.is_threat /\ ~prev.is_threat
  /\ prev.toxicity_score = Milli(799) /\ prev.result = "high"
  /\ call.toxicity_score = Milli(800) /\ call.result = "critical"
  /\ prev.sentiment_score # call.sentiment_score

\* some keyword of the predictor's lexicon occurs in the text
LexiconHit(p, text) ==
  LET lexicon == IF p = "TextPredictor" THEN TextPredictor_threat_keywords
                 ELSE threat_keywords
  IN  \E k \in { lexicon[j] : j \in 1..Len(lexicon) } :
         Contains(k, Lower(text))

\* C8: detect_threat returns (threat_prob > 0.5) OR (keyword in text AND
\* toxicity_score > 0.3) OR (toxicity_score > 0.8), every comparison strict:
\* at exactly 0.5, 0.3 and 0.8 the clause does not hold.
C8_ThreatRule ==
  call.fn = "detect_threat" =>
    /\ call.result =
         (\/ (call.threat_prob # None /\ call.threat_prob > Milli(500))
          \/ (LexiconHit(call.self, call.text) /\ call.toxicity_score > Milli(300))
          \/ call.toxicity_score > Milli(800))
    /\ (call.toxicity_score = Milli(800) /\ call.threat_prob = Milli(500)
          /\ ~LexiconHit(call.self, call.text)) => ~call.result
    /\ (call.toxicity_score = Milli(300) /\ call.threat_prob = Milli(500)) =>
         ~call.result

\* a text with a keyword at toxicity exactly 0.3 and threat probability
\* exactly 0.5 is no threat
C8_Witness ==
  /\ call.fn = "detect_threat"
  /\ LexiconHit(call.self, call.text)
  /\ call.toxicity_score = Milli(300)
  /\ call.threat_prob = Milli(500)
  /\ ~call.result

\* the toxicity model was run during the request and produced scores
ModelProduced == Answered /\ USE_MULTILINGUAL /\ request.tox.kind = "probs"

\* max of the scores the toxicity model produced
NeuralToxicity == MaxOf({ request.tox.probs[j] : j \in 1..Len(request.tox.probs) })

\* C9: whenever the toxicity model produced a score n, 0 included, the fused
\* toxicity is 0.4*n + 0.6*l for kn and hi and 0.7*n + 0.3*l for en, mixed
\* and unknown, l being the lexical toxicity.
C9_WeightedFusion ==
  ModelProduced =>
    LET n == NeuralToxicity
        l == check_keyword_toxicity(request.text)
    IN  calls.toxicity.labels.toxic =
          IF calls.language_info.language \in {"kn", "hi"}
          THEN Tenths(4, n) + Tenths(6, l)
          ELSE Tenths(7, n) + Tenths(3, l)

\* the number of lexicon entries that occur in the text of the request
RequestMatches == CountMatches(threat_keywords, request.text)

\* the toxicity model is missing, or it raised during the request
ModelUnavailable ==
  Answered /\ USE_MULTILINGUAL /\ (~toxicity_model \/ request.tox.kind = "raise")

\* C10: when the toxicity model is not loaded or raises, predict_toxicity
\* still returns, and its score is the lexical score in every language:
\* 0 without a match, min(0.5 + 0.1 m, 0.9) with m matches, so 0.6 for one
\* match and 0.7 for two.
C10_KeywordOnlyFallback ==
  ModelUnavailable =>
    /\ calls.toxicity.score =
         (IF RequestMatches = 0 THEN 0
          ELSE Min2(Milli(500) + RequestMatches * Milli(100), Milli(900)))
    /\ calls.toxicity.score = check_keyword_toxicity(request.text)
    /\ RequestMatches = 0 => calls.toxicity.score = 0
    /\ RequestMatches = 1 => calls.toxicity.score = Milli(600)
    /\ RequestMatches = 2 => calls.toxicity.score = Milli(700)

\* the loaded model raised on a Kannada text with two matches: 0.7
C10_Witness ==
  /\ ModelUnavailable
  /\ toxicity_model /\ request.tox.kind = "raise"
  /\ calls.language_info.language \in {"kn", "hi"}
  /\ RequestMatches = 2
  /\ calls.toxicity.score = Milli(700)

\* the request was answered by MultilingualTextPredictor.predict
AnsweredMultilingual == Answered /\ USE_MULTILINGUAL

\* max(label_probs.values()) of the label breakdown predict_toxicity returned
MaxLabel ==
  MaxOf({ calls.toxicity.labels[l] : l \in DOMAIN calls.toxicity.labels })

MatchesByLexicon ==
  [t \in Texts |-> [en |-> CountMatches(threat_keywords_en, t),
                    kn |-> CountMatches(threat_keywords_kn, t),
                    hi |-> CountMatches(threat_keywords_hi, t)]]

\* C12: the lexical toxicity score is a function of the number m of lexicon
\* matches only, whatever language was detected: 0 for m = 0 and
\* min(0.5 + 0.1 m, 0.9) for m > 0, so below 0.9 up to m = 3 and 0.9 from
\* m = 4 on; m counts the terms of all three lexicons.
C12_LexicalToxicity ==
  AnsweredMultilingual =>
    LET by == MatchesByLexicon[request.text]
        m == by.en + by.kn + by.hi
    IN  /\ calls.keyword_toxicity =
             (IF m = 0 THEN 0 ELSE Min2(Milli(500) + m * Milli(100), Milli(900)))
        /\ m \in 1..3 => calls.keyword_toxicity = Milli(500) + m * Milli(100)
        /\ m >= 4 => calls.keyword_toxicity = Milli(900)

\* a text detected as English with five matches, Kannada and Hindi terms
\* among them, scores 0.9
C12_Witness ==
  /\ AnsweredMultilingual
  /\ calls.language_info.language = "en"
  /\ MatchesByLexicon[request.text].en = 1
  /\ MatchesByLexicon[request.text].kn = 1
  /\ MatchesByLexicon[request.text].hi = 3
  /\ calls.keyword_toxicity = Milli(900)

\* C13: the lexical threat score is computed from the same match count m
\* over the same combined lexicon as the lexical toxicity score: 0 for m = 0
\* and min(0.6 + 0.15 m, 1.0) for m > 0; so it is non-zero exactly when the
\* lexical toxicity score is non-zero.
C13_LexicalThreat ==
  AnsweredMultilingual =>
    LET by == MatchesByLexicon[request.text]
        m == by.en + by.kn + by.hi
    IN  /\ calls.threat_keywords =
             (IF m = 0 THEN 0 ELSE Min2(Milli(600) + m * Milli(150), One))
        /\ (calls.threat_keywords # 0) = (calls.keyword_toxicity # 0)
        /\ calls.threat_keywords <= One

\* three matches: 0.6 + 0.45 is capped at 1.0 while the toxicity is 0.8
C13_Witness ==
  /\ AnsweredMultilingual
  /\ ThreatKeywordMatches[request.text] = 3
  /\ calls.threat_keywords = One
  /\ calls.keyword_toxicity = Milli(800)

\* the text of the request is empty or consists of whitespace
EmptyInput == Len(request.text) = 0 \/ IsBlank(request.text)

\* C14: a request whose text is empty or whitespace-only is answered with
\* status 400 and detail 'Text cannot be empty' and predict is not called;
\* every other request is answered with a result.
C14_EmptyInputRejected ==
  response # NoResponse =>
    /\ EmptyInput =>
         /\ response.status = 400
         /\ response.detail = "Text cannot be empty"
         /\ calls = NoCalls
    /\ ~EmptyInput => response.status = 200

\* the keys of the dictionary predict returns
ResultKeys ==
  {"toxicity_score", "sentiment_score", "severity", "is_threat", "confidence",
   "detected_language", "details"}

\* C15: for every non-empty text and every combination of failures of the
\* language detector, the toxicity model and the sentiment model, predict
\* returns a complete result: all seven keys, a score in [0, 1], a severity,
\* a language tag; and a failed sentiment model gives sentiment_score 0.0.
C15_CompleteResult ==
  (USE_MULTILINGUAL /\ response # NoResponse /\ ~EmptyInput) =>
    /\ response.status = 200
    /\ DOMAIN response.body = ResultKeys
    /\ response.body.toxicity_score >= 0 /\ response.body.toxicity_score <= One
    /\ response.body.severity \in Severities
    /\ response.body.is_threat \in BOOLEAN
    /\ response.body.detected_language \in {"en", "kn", "hi", "mixed", "unknown"}
    /\ request.sent.kind = "raise" => response.body.sentiment_score = 0

\* the language detector, the toxicity model and the sentiment model all
\* failed on a text with a lexicon term, and the result is complete
C15_Witness ==
  /\ AnsweredMultilingual
  /\ request.lang = "Exception"
  /\ request.tox.kind = "raise"
  /\ request.sent.kind = "raise"
  /\ ThreatKeywordMatches[request.text] > 0
  /\ DOMAIN response.body = ResultKeys
  /\ response.body.sentiment_score = 0
  /\ response.body.detected_language = "unknown"

\* the language tags whose script occurs in the text of the request
ScriptsPresent ==
  (IF HasEnglish(request.text) THEN {"en"} ELSE {})
    \cup (IF HasKannada(request.text) THEN {"kn"} ELSE {})
    \cup (IF HasHindi(request.text) THEN {"hi"} ELSE {})

\* detect_language took the statistical path or the script-range fallback
DetectionPath == AnsweredMultilingual /\ request.lang # "Exception"

\* C16: on the statistical path and on the script-range fallback alike, a
\* text with characters of more than one of the scripts Latin, Kannada and
\* Devanagari is 'mixed' and mixed_languages holds the tag of every script
\* present, also for Kannada with Devanagari and no Latin.
C16_MixedScripts ==
  (DetectionPath /\ Cardinality(ScriptsPresent) > 1) =>
    LET info == calls.language_info
    IN  /\ info.language = "mixed"
        /\ { info.mixed_languages[j] : j \in 1..Len(info.mixed_languages) }
             = ScriptsPresent

\* the confidence detect_language gives on each of its paths
ConfidenceOfPath ==
  IF request.lang = "Exception" THEN 0
  ELSE IF request.lang = "LangDetectException"
       THEN IF ScriptsPresent = {} THEN Milli(500) ELSE Milli(700)
  ELSE Milli(800)

\* C17 as stated: detect_language returns a LanguageInfo whose confidence is
\* the constant of the path taken, and every result whose language is
\* 'unknown' has confidence 0.5 or 0.0.
C17_UnknownConfidence ==
  AnsweredMultilingual =>
    /\ calls.language_info.confidence = ConfidenceOfPath
    /\ calls.language_info.language = "unknown" =>
         calls.language_info.confidence \in {Milli(500), 0}

\* C17, amended: detect_language returns a LanguageInfo whose confidence is
\* the constant of the path taken: 0.8 when langdetect returned a code, 0.7
\* when the fallback found a known script, 0.5 when it found none, 0.0 on
\* any other failure; a result 'unknown' has confidence 0.8, 0.5 or 0.0,
\* and 0.8 exactly when langdetect returned a code outside en, kn, hi for a
\* text without Latin, Kannada and Devanagari characters.
C17_ConfidenceByPath ==
  AnsweredMultilingual =>
    LET info == calls.language_info
    IN  /\ info.confidence = ConfidenceOfPath
        /\ info.language \in {"en", "kn", "hi", "mixed", "unknown"}
        /\ info.language = "unknown" =>
             info.confidence \in {Milli(800), Milli(500), 0}
        /\ (info.language = "unknown" /\ info.confidence = Milli(800)) =
             (request.lang = "ru" /\ ScriptsPresent = {})
        /\ (info.language = "unknown" /\ info.confidence = Milli(500)) =
             (request.lang = "LangDetectException" /\ ScriptsPresent = {})

\* langdetect recognized the language of a Cyrillic text: 'unknown' at 0.8
C17_Witness ==
  /\ AnsweredMultilingual
  /\ request.text = <<"U+0442", "U+044B">>
  /\ request.lang = "ru"
  /\ calls.language_info.language = "unknown"
  /\ calls.language_info.confidence = Milli(800)

\* the service has answered the repetition of the request the client keeps
Repeated ==
  /\ last # NoLast
  /\ response # NoResponse
  /\ request.text = last.request.text
  /\ request.lang = last.request.lang
  /\ request.sent = last.request.sent

InFlight == { i \in Slots : handler[i].pc \notin {"idle", "done"} }

\* C19: with several on_message handlers in flight, interleaved at their
\* suspension points, no update of a counter is lost: messages_analyzed is
\* the number of messages that passed the filters, messages_deleted the
\* number of successful deletions, incidents_detected the number of
\* successful inserts, at every suspension and so when all handlers have
\* finished; and no step makes a counter smaller.
C19_NoLostUpdate ==
  /\ [](/\ bot_stats.messages_analyzed = observed.passed
        /\ bot_stats.messages_deleted = observed.deleted
        /\ bot_stats.incidents_detected = observed.inserted)
  /\ [][/\ bot_stats'.messages_analyzed >= bot_stats.messages_analyzed
        /\ bot_stats'.messages_deleted >= bot_stats.messages_deleted
        /\ bot_stats'.incidents_detected >= bot_stats.incidents_detected]_vars

\* two handlers in flight at once, both past their deletion and both
\* incidents stored: every counter is 2
C19_Witness ==
  /\ concurrency > 1
  /\ handler[1].pc = "sleep" /\ handler[2].pc = "warning_send"
  /\ observed.deleted = 2 /\ observed.inserted = 2
  /\ bot_stats = [messages_analyzed |-> 2, incidents_detected |-> 2,
                  messages_deleted |-> 2]

\* handler i is inside requests.post, waiting for the ML service
WaitingForService(i) == handler[i].pc = "analyze_message"

\* handler j is suspended in an await whose result may have arrived
SuspendedInAwait(j) ==
  handler[j].pc \in {"alert_send", "message_delete", "warning_send", "sleep",
                     "warning_delete", "process_commands"}

\* handler j is resumed
Resume(j) ==
  \/ AlertSendReturns(j)
  \/ MessageDeleteReturns(j)
  \/ WarningSendReturns(j)
  \/ SleepReturns(j)
  \/ WarningDeleteReturns(j)
  \/ ProcessCommandsReturns(j)

\* C20: while the analysis call of one message waits for the ML service,
\* the handlers of other messages can go on: a handler suspended in an await
\* can be resumed although another handler is waiting for the service.
C20_OthersProgress ==
  \A i \in Slots, j \in Slots :
    (i # j /\ WaitingForService(i) /\ SuspendedInAwait(j)) => ENABLED Resume(j)

\* C21: the removal of a warning notice after the delay is fire-and-forget:
\* a failed removal is swallowed (the handler goes on to process_commands),
\* and the handler does not wait for the delay: while the removal of a
\* notice it sent is still to come, it is already at process_commands or
\* has finished.
C21_FireAndForget ==
  \A i \in Slots :
    /\ handler[i].warning = "remove failed" =>
         handler[i].pc \in {"process_commands", "done"}
    /\ handler[i].warning = "sent" =>
         handler[i].pc \in {"process_commands", "done"}

\* the handlers whose incident was to be saved and was not stored
PersistenceFailed ==
  { i \in Slots : /\ handler[i].save_decision = "save"
                  /\ handler[i].incident \in {"not configured", "no data",
                                              "exception"} }

\* C22: when the incident is not stored (no client, the insert raises, or it
\* returns no data) the handler goes on as if it were: send_alert is called
\* when an alert channel is configured, the delete decision is taken and the
\* deletion awaited when it is true, a deleted message is followed by the
\* warning; and incidents_detected counts the stored incidents only.
C22_DecisionSurvivesSaveFailure ==
  /\ bot_stats.incidents_detected = observed.inserted
  /\ \A i \in PersistenceFailed :
       LET h == handler[i]
       IN  /\ AlertConfigured => h.alert # "-"
           /\ (AlertConfigured /\ AlertChannelFound) =>
                h.alert \in {"pending", "sent", "failed"}
           /\ h.pc # "alert_send" =>
                /\ h.delete_decision =
                     (IF should_delete_message(h.analysis.severity,
                                               h.analysis.is_threat)
                      THEN "delete" ELSE "keep")
                /\ h.delete_decision = "delete" => h.deletion # "-"
                /\ (h.deletion = "deleted" /\ WARN_USERS) => h.warning # "-"

\* the insert raised; the alert and the warning were sent and the message
\* deleted, with no incident counted
C22_Witness ==
  \E i \in PersistenceFailed :
    /\ handler[i].incident = "exception"
    /\ handler[i].alert = "sent"
    /\ handler[i].deletion = "deleted"
    /\ handler[i].warning = "sent"
    /\ bot_stats.incidents_detected = 0
    /\ bot_stats.messages_deleted = 1

\* the handlers whose message.delete() raised
DeletionFailed ==
  { i \in Slots : handler[i].deletion \in {"Forbidden", "NotFound",
                                           "HTTPException"} }

\* C23: when message.delete() raises Forbidden, NotFound or another error,
\* the handler does not await the deletion again and sends no warning; it
\* keeps the analysis, the incident and the alert as they were and goes on
\* to process_commands; messages_deleted counts the successful deletions
\* and incidents_detected the stored incidents, as before.
C23_DeleteFailureIsLocal ==
  /\ bot_stats.messages_deleted = observed.deleted
  /\ bot_stats.incidents_detected = observed.inserted
  /\ bot_stats.messages_analyzed = observed.passed
  /\ \A i \in DeletionFailed :
       LET h == handler[i]
       IN  /\ h.pc \in {"process_commands", "done"}
           /\ h.warning = "-"
           /\ h.analysis.ok
           /\ h.save_decision = "save" /\ h.incident # "-"
           /\ h.delete_decision = "delete"
           /\ (AlertConfigured /\ AlertChannelFound) =>
                h.alert \in {"sent", "failed"}

\* the incident was stored and the alert sent, the deletion was forbidden:
\* the handler finished with one incident and no deletion counted
C23_Witness ==
  \E i \in DeletionFailed :
    /\ handler[i].deletion = "Forbidden"
    /\ handler[i].incident = "saved"
    /\ handler[i].alert = "sent"
    /\ handler[i].pc = "done"
    /\ bot_stats = [messages_analyzed |-> 1, incidents_detected |-> 1,
                    messages_deleted |-> 0]

\* the number of distinct lexicon terms that occur in a text, tabulated
DistinctMatches ==
  [t \in Texts |->
     Cardinality({ k \in { Lower(threat_keywords[j]) : j \in 1..Len(threat_keywords) } :
                     Contains(k, Lower(t)) })]

\* C24: the match count behind the lexical toxicity and threat scores is the
\* number of distinct lexicon terms that occur in the text, so no term is
\* counted twice.
C24_DistinctTerms ==
  AnsweredMultilingual =>
    LET m == DistinctMatches[request.text]
    IN  /\ calls.keyword_toxicity =
             (IF m = 0 THEN 0 ELSE Min2(Milli(500) + m * Milli(100), Milli(900)))
        /\ calls.threat_keywords =
             (IF m = 0 THEN 0 ELSE Min2(Milli(600) + m * Milli(150), One))

\* C25: in the multilingual predictor a text with at least one lexicon match
\* is a threat of severity critical, whatever the model yields, whether it
\* is available and whatever language was detected; with the model
\* unavailable and exactly one match the toxicity score is 0.6 and the
\* threat probability 0.75.
C25_LexiconMatchIsCritical ==
  AnsweredMultilingual =>
    /\ ThreatKeywordMatches[request.text] >= 1 =>
         /\ response.body.is_threat
         /\ response.body.severity = "critical"
    /\ (ModelUnavailable /\ ThreatKeywordMatches[request.text] = 1) =>
         /\ response.body.toxicity_score = Milli(600)
         /\ response.body.details.threat_analysis.model_probability = Milli(750)
         /\ calls.toxicity.labels.threat = Milli(750)
         /\ response.body.is_threat
         /\ response.body.severity = "critical"

\* the model ran on a text with one match, scored it 0.1 with a threat label
\* of 0, and the fused toxicity of 0.25 did not keep it from being critical
C25_Witness ==
  /\ ModelProduced
  /\ ThreatKeywordMatches[request.text] = 1
  /\ Len(request.tox.probs) = 6
  /\ NeuralToxicity = Milli(100)
  /\ request.tox.probs[4] = 0
  /\ calls.toxicity.labels.toxic = Milli(250)
  /\ response.body.is_threat
  /\ response.body.severity = "critical"

\* C26: in a response with is_threat false the severity is the band of the
\* reported toxicity_score, the score rounded to 3 decimals: critical from
\* 0.8, high from 0.6, medium from 0.4, low below.
C26_SeverityOfReportedScore ==
  (Answered /\ ~response.body.is_threat) =>
    /\ response.body.severity = SeverityBand(response.body.toxicity_score)
    /\ response.body.toxicity_score >= Milli(800) =>
         response.body.severity = "critical"

\* the model's own probability of the label 'threat' in the request, 0 when
\* the model was not run, raised, or has no such label
ModelThreatLabel ==
  IF request.tox.kind = "probs" /\ Len(request.tox.probs) >= 6
  THEN request.tox.probs[4] ELSE 0

\* C27: details.threat_analysis.reason names the signal that set the threat
\* flag: 'none' exactly when is_threat is false, 'model_detection' only when
\* the model's threat label exceeded 0.5, 'keyword_match' only when a
\* lexicon keyword occurs in the text.
C27_ReasonNamesSignal ==
  AnsweredMultilingual =>
    LET reason == response.body.details.threat_analysis.reason
    IN  /\ (reason = "none") = ~response.body.is_threat
        /\ reason = "model_detection" => ModelThreatLabel > Milli(500)
        /\ reason = "keyword_match" => ThreatKeywordMatch[request.text]

\* the handler in slot i got None from analyze_message and returned
AnalysisFailed(i) ==
  /\ handler[i].kind = "text"
  /\ handler[i].pc = "done"
  /\ ~handler[i].analysis.ok

\* C28: analyze_message returns None on a timeout, a transport error, an
\* HTTP error status and any other exception; on None on_message saves,
\* alerts, deletes and warns nothing and leaves incidents_detected and
\* messages_deleted as they are, the message having been counted in
\* messages_analyzed before.
C28_FailedAnalysisIsInert ==
  /\ [](\A o \in AnalysisOutcomes :
          o.kind # "ok" => analyze_message(o) = NoAnalysis)
  /\ [](\A i \in Slots :
          AnalysisFailed(i) =>
            /\ handler[i].save_decision = "-" /\ handler[i].incident = "-"
            /\ handler[i].alert = "-"
            /\ handler[i].delete_decision = "-" /\ handler[i].deletion = "-"
            /\ handler[i].warning = "-"
            /\ bot_stats.messages_analyzed >= 1)
  /\ [][\A i \in Slots :
          (handler[i].pc = "analyze_message" /\ AnalysisFailed(i)') =>
            /\ bot_stats' = bot_stats
            /\ observed.passed = bot_stats.messages_analyzed
            /\ observed.passed > observed.inserted]_vars

\* with everything configured to save, alert and delete, the second message
\* failed to be analysed after the first was saved and deleted: two analysed,
\* one incident, one deletion
C28_Witness ==
  /\ DELETE_MESSAGES /\ supabase /\ ALERT_CHANNEL_ID # "None"
  /\ AnalysisFailed(1)
  /\ bot_stats = [messages_analyzed |-> 2, incidents_detected |-> 1,
                  messages_deleted |-> 1]

\* the toxicity model raised at inference on a text that is English
EnglishUnderFailure ==
  /\ Answered
  /\ request.tox.kind = "raise"
  /\ detect_language(request.text, "en").language = "en"

\* what TextPredictor.predict returns for the request
EnglishResult ==
  TextPredictor_predict(request.text,
                        TextPredictor_predict_toxicity(request.tox),
                        calls.sentiment_score)

\* what MultilingualTextPredictor.predict returns for the request
MultilingualResult ==
  LET language_info == detect_language(request.text, "en")
  IN  predict(request.text, language_info,
              predict_toxicity(request.text, language_info, TRUE, request.tox),
              calls.sentiment_score)

\* C29: when the toxicity model fails at inference on an English text, the
\* English-only and the multilingual predictor return the same is_threat and
\* the same severity, and a text with a threat keyword is still flagged.
C29_PredictorsAgreeUnderFailure ==
  EnglishUnderFailure =>
    /\ EnglishResult.is_threat = MultilingualResult.is_threat
    /\ EnglishResult.severity = MultilingualResult.severity
    /\ ThreatKeywordMatch[request.text] => response.body.is_threat

\* C30: in every reachable state of the bot messages_deleted and
\* incidents_detected are at most messages_analyzed, whatever messages were
\* handled and whatever failed; a counter grows by one at a time, and only
\* in the step in which the message of a handler is deleted, or its incident
\* stored, which happens once for a message.
C30_CountersBounded ==
  /\ [](/\ bot_stats.messages_deleted <= bot_stats.messages_analyzed
        /\ bot_stats.incidents_detected <= bot_stats.messages_analyzed
        /\ bot_stats.messages_analyzed <= received)
  /\ [][/\ bot_stats'.messages_deleted # bot_stats.messages_deleted =>
             /\ bot_stats'.messages_deleted = bot_stats.messages_deleted + 1
             /\ \E i \in Slots : /\ handler[i].deletion = "pending"
                                 /\ handler'[i].deletion = "deleted"
        /\ bot_stats'.incidents_detected # bot_stats.incidents_detected =>
             /\ bot_stats'.incidents_detected = bot_stats.incidents_detected + 1
             /\ \E i \in Slots : /\ handler[i].incident = "-"
                                 /\ handler'[i].incident = "saved"
        /\ \A i \in Slots :
             handler[i].deletion \notin {"-", "pending"} =>
               handler'[i].deletion \in {handler[i].deletion, "-"}]_vars

\* both messages were analysed and stored, the first was deleted and the
\* deletion of the second was refused
C30_Witness ==
  /\ handler[1].incident = "saved"
  /\ handler[1].deletion = "Forbidden"
  /\ bot_stats = [messages_analyzed |-> 2, incidents_detected |-> 2,
                  messages_deleted |-> 1]

====
